---- MODULE Spec2Model ----
(***************************************************************************)
(* TerratestLogViewer: the log transforms filterLogs, removeTimestampPrefix *)
(* and removeTestNamePrefix with their helpers hasPrefix,                   *)
(* hasTestFailurePrefix and findNext.                                       *)
(*                                                                          *)
(* A byte buffer ([]byte) is a sequence of one-character strings.  Go       *)
(* offsets are 0-based: byte k of str is str[k+1], and the Go slice         *)
(* str[a:b] is SubSeq(str, a+1, b).  Two variants of filterLogs/hasPrefix   *)
(* are present in the source: variant 1 (main.go) and variant 2             *)
(* (README.md, with the bounds check and the failure-report header).        *)
(* Every loop iteration of a transform is one step of the state machine;    *)
(* a Go run-time panic (index or slice out of range) ends the call in       *)
(* pc = "panic".                                                            *)
(* parseSummary is in no source file of the repository; it is modelled      *)
(* from its specification on the same helpers.                              *)
(***************************************************************************)
EXTENDS Integers, Sequences, FiniteSets, TLC

VARIABLES variant, op, logs, testName, i, priorLineMatchedPrefix,
          filteredLogs, newLogs, pc, err, pass, firstResult

vars == <<variant, op, logs, testName, i, priorLineMatchedPrefix,
          filteredLogs, newLogs, pc, err, pass, firstResult>>

(***************************************************************************)
(* Bounds of the model                                                      *)
(***************************************************************************)
MaxLines == 3

(***************************************************************************)
(* Byte literals of the program                                             *)
(***************************************************************************)
NL == "\n"

SP == " "

\* []byte("Test")
Test == <<"T", "e", "s", "t">>

\* var testFailurePrefix = []byte("=== NAME  ")
testFailurePrefix == <<"=", "=", "=", " ", "N", "A", "M", "E", " ", " ">>

(***************************************************************************)
(* Inputs: test names and lines the buffers are built from                  *)
(***************************************************************************)
TestA == <<"T", "e", "s", "t", "A">>

TestB == <<"T", "e", "s", "t", "B">>

TestAB == <<"T", "e", "s", "t", "A", "B">>

TestNames == {TestA, TestB, TestAB}

\* lines of the form token, one space, rest, with a token beginning with "Test"
TokenLines == {TestA \o <<" ", "1">>, TestAB \o <<" ", "1">>, TestB \o <<" ", "1">>}

FilterLines ==
    TokenLines \cup
    { <<"x">>, <<>>, <<"T", "e", "s">>,
      testFailurePrefix \o TestA, testFailurePrefix \o TestB }

SeqsUpTo(S, n) == UNION {[1..k -> S] : k \in 0..n}

RECURSIVE Flatten(_, _)
\* the buffer made of the lines ls, each followed by "\n", the last one only
\* when terminated
Flatten(ls, terminated) ==
    IF ls = <<>> THEN <<>>
    ELSE IF Len(ls) = 1 THEN (IF terminated THEN Head(ls) \o <<NL>> ELSE Head(ls))
    ELSE Head(ls) \o <<NL>> \o Flatten(Tail(ls), terminated)

Buffers(S) == {Flatten(ls, t) : ls \in SeqsUpTo(S, MaxLines), t \in BOOLEAN}

Min(S) == CHOOSE x \in S : \A y \in S : x <= y

(***************************************************************************)
(* Helpers of the program                                                   *)
(***************************************************************************)
\* findNext returning the last occurrence instead of the next one
findNext_last(str, offset, test) ==
    LET hits == {k \in offset..(Len(str) - 1) : str[k + 1] = test}
    IN  IF hits # {} THEN CHOOSE k \in hits : \A h \in hits : h <= k
        ELSE Len(str) - 1

\* findNext: the index of the next `test` byte at or after offset, or the
\* last index of str
findNext(str, offset, test) ==
    LET hits == {k \in offset..(Len(str) - 1) : str[k + 1] = test}
    IN  IF hits # {} THEN Min(hits) ELSE Len(str) - 1

\* hasPrefix with the loop bound len(prefix)-1: the last byte is not compared
hasPrefix_shortCompare(str, offset, prefix) ==
    \A j \in 0..(Len(prefix) - 2) :
        ~(offset + j >= Len(str) \/ str[offset + j + 1] # prefix[j + 1])

\* hasPrefix, variant 2: a position past the end of str is a mismatch
hasPrefix(str, offset, prefix) ==
    \A j \in 0..(Len(prefix) - 1) :
        ~(offset + j >= Len(str) \/ str[offset + j + 1] # prefix[j + 1])

\* hasPrefix, variant 1: str[offset+j] is read without a bounds check, so the
\* first position that is out of range panics unless a mismatch came before
hasPrefix_main(str, offset, prefix) ==
    LET stops == {j \in 0..(Len(prefix) - 1) :
                    \/ offset + j >= Len(str)
                    \/ str[offset + j + 1] # prefix[j + 1]}
    IN  IF stops = {} THEN "true"
        ELSE IF offset + Min(stops) >= Len(str) THEN "panic"
        ELSE "false"

\* hasTestFailurePrefix looking for the name one byte too early
hasTestFailurePrefix_offByOne(str, offset, name) ==
    LET hasFailurePrefix == hasPrefix(str, offset, testFailurePrefix)
        hasTestName == hasPrefix(str, offset + Len(testFailurePrefix) - 1, name)
    IN  hasFailurePrefix /\ hasTestName

hasTestFailurePrefix(str, offset, name) ==
    LET hasFailurePrefix == hasPrefix(str, offset, testFailurePrefix)
        hasTestName == hasPrefix(str, offset + Len(testFailurePrefix), name)
    IN  hasFailurePrefix /\ hasTestName

(***************************************************************************)
(* filterLogs                                                               *)
(***************************************************************************)
\* the first condition without the test of the name after the header
lineMatches_anyHeader(v, str, offset, name) ==
    IF v = 1 THEN hasPrefix_main(str, offset, name)
    ELSE IF hasPrefix(str, offset, name) \/ hasPrefix(str, offset, testFailurePrefix)
         THEN "true" ELSE "false"

\* the condition of the first `if` of the loop body, per variant:
\* "true", "false" or "panic"
lineMatches(v, str, offset, name) ==
    IF v = 1 THEN hasPrefix_main(str, offset, name)
    ELSE IF hasPrefix(str, offset, name) \/ hasTestFailurePrefix(str, offset, name)
         THEN "true" ELSE "false"

\* the new-test condition with the literal "test" in lower case
startsNewTest_lowercase(v, str, offset) ==
    IF v = 1 THEN hasPrefix_main(str, offset, <<"t", "e", "s", "t">>)
    ELSE IF hasPrefix(str, offset, <<"t", "e", "s", "t">>) THEN "true" ELSE "false"

\* the condition hasPrefix(logs, i, []byte("Test")), per variant
startsNewTest(v, str, offset) ==
    IF v = 1 THEN hasPrefix_main(str, offset, Test)
    ELSE IF hasPrefix(str, offset, Test) THEN "true" ELSE "false"

\* the line taken as logs[from : endOfLineIdx], without its last byte
emit_noTerminator(buf, str, from, endOfLineIdx) ==
    buf \o (IF from + 1 <= endOfLineIdx THEN SubSeq(str, from + 1, endOfLineIdx)
            ELSE <<>>)

\* the line taken as logs[from+1 : endOfLineIdx+1], without its first byte
emit_skipFirst(buf, str, from, endOfLineIdx) ==
    buf \o (IF from + 2 <= endOfLineIdx + 1
            THEN SubSeq(str, from + 2, endOfLineIdx + 1) ELSE <<>>)

\* line := logs[from : endOfLineIdx+1]; buf = append(buf, line...)
emit(buf, str, from, endOfLineIdx) == buf \o SubSeq(str, from + 1, endOfLineIdx + 1)

\* one iteration of the loop of filterLogs
filterLogs ==
    /\ op = "filterLogs"
    /\ pc = "loop"
    /\ i < Len(logs)
    /\ LET endOfLineIdx == findNext(logs, i, NL)
           m == lineMatches(variant, logs, i, testName)
           t == startsNewTest(variant, logs, i)
       IN  IF m = "panic" \/ (m = "false" /\ priorLineMatchedPrefix /\ t = "panic")
           THEN /\ pc' = "panic"
                /\ UNCHANGED <<i, priorLineMatchedPrefix, filteredLogs>>
           ELSE /\ pc' = "loop"
                /\ i' = endOfLineIdx + 1
                /\ IF m = "true"
                   THEN /\ filteredLogs' = emit(filteredLogs, logs, i, endOfLineIdx)
                        /\ priorLineMatchedPrefix' = TRUE
                   ELSE IF priorLineMatchedPrefix
                        THEN IF t = "true"
                             THEN /\ priorLineMatchedPrefix' = FALSE
                                  /\ UNCHANGED filteredLogs
                             ELSE /\ filteredLogs' = emit(filteredLogs, logs, i, endOfLineIdx)
                                  /\ UNCHANGED priorLineMatchedPrefix
                        ELSE UNCHANGED <<priorLineMatchedPrefix, filteredLogs>>
    /\ UNCHANGED <<variant, op, logs, testName, newLogs, err, pass, firstResult>>

\* the loop exit and `return filteredLogs, nil`
filterLogsReturn ==
    /\ op = "filterLogs"
    /\ pc = "loop"
    /\ i >= Len(logs)
    /\ pc' = "done"
    /\ err' = "nil"
    /\ UNCHANGED <<variant, op, logs, testName, i, priorLineMatchedPrefix,
                   filteredLogs, newLogs, pass, firstResult>>

\* filterLogs called again on its own result with the same test name
filterLogsAgain ==
    /\ op = "filterLogs"
    /\ pc = "done"
    /\ pass = 1
    /\ pass' = 2
    /\ firstResult' = filteredLogs
    /\ logs' = filteredLogs
    /\ filteredLogs' = <<>>
    /\ i' = 0
    /\ priorLineMatchedPrefix' = FALSE
    /\ pc' = "loop"
    /\ err' = "unset"
    /\ UNCHANGED <<variant, op, testName, newLogs>>

InitFilter ==
    /\ variant \in {1, 2}
    /\ op = "filterLogs"
    /\ logs \in Buffers(FilterLines)
    /\ testName \in TestNames
    /\ i = 0
    /\ priorLineMatchedPrefix = FALSE
    /\ filteredLogs = <<>>
    /\ newLogs = <<>>
    /\ pc = "loop"
    /\ err = "unset"
    /\ pass = 1
    /\ firstResult = <<>>

NextFilter == filterLogs \/ filterLogsReturn \/ filterLogsAgain

SpecFilter == InitFilter /\ [][NextFilter]_vars

(***************************************************************************)
(* removeTimestampPrefix                                                    *)
(***************************************************************************)
\* lines with a one-byte timestamp "t": with and without message, without a
\* space, with a second space, with an empty timestamp, and the empty line
TimestampLines ==
    { <<"t", " ", "m">>, <<"t", " ">>, <<"t", "m">>,
      <<"t", " ", "m", " ", "m">>, <<" ", "m">>, <<>> }

\* the Go slice expression str[lo:hi] is in range
sliceInRange(str, lo, hi) == 0 <= lo /\ lo <= hi /\ hi <= Len(str)

\* one iteration of the loop of removeTimestampPrefix
removeTimestampPrefix ==
    /\ op = "removeTimestampPrefix"
    /\ pc = "loop"
    /\ i < Len(logs)
    /\ LET endOfTimestampIdx == findNext(logs, i, SP)
           endOfLineIdx == findNext(logs, endOfTimestampIdx + 1, NL)
       IN  IF sliceInRange(logs, endOfTimestampIdx + 1, endOfLineIdx + 1)
           THEN /\ newLogs' = emit(newLogs, logs, endOfTimestampIdx + 1, endOfLineIdx)
                /\ i' = endOfLineIdx + 1
                /\ pc' = "loop"
           ELSE /\ pc' = "panic"
                /\ UNCHANGED <<newLogs, i>>
    /\ UNCHANGED <<variant, op, logs, testName, priorLineMatchedPrefix,
                   filteredLogs, err, pass, firstResult>>

\* the loop exit and `return newLogs` of removeTimestampPrefix
removeTimestampPrefixReturn ==
    /\ op = "removeTimestampPrefix"
    /\ pc = "loop"
    /\ i >= Len(logs)
    /\ pc' = "done"
    /\ UNCHANGED <<variant, op, logs, testName, i, priorLineMatchedPrefix,
                   filteredLogs, newLogs, err, pass, firstResult>>

InitTimestamp ==
    /\ variant = 2
    /\ op = "removeTimestampPrefix"
    /\ logs \in Buffers(TimestampLines)
    /\ testName = <<>>
    /\ i = 0
    /\ priorLineMatchedPrefix = FALSE
    /\ filteredLogs = <<>>
    /\ newLogs = <<>>
    /\ pc = "loop"
    /\ err = "unset"
    /\ pass = 1
    /\ firstResult = <<>>

NextTimestamp == removeTimestampPrefix \/ removeTimestampPrefixReturn

SpecTimestamp == InitTimestamp /\ [][NextTimestamp]_vars

(***************************************************************************)
(* removeTestNamePrefix                                                     *)
(***************************************************************************)
\* token lines, a line that is exactly a test name, an orphan line and the
\* empty line
TestNameLines == TokenLines \cup {TestA, <<"x">>, <<>>}

\* one iteration of the loop of removeTestNamePrefix
removeTestNamePrefix ==
    /\ op = "removeTestNamePrefix"
    /\ pc = "loop"
    /\ i < Len(logs)
    /\ LET endOfLineIdx == findNext(logs, i, NL)
           endOfPrefixIdx == i + Len(testName) + 1
           from == IF hasPrefix(logs, i, testName) THEN endOfPrefixIdx ELSE i
       IN  IF sliceInRange(logs, from, endOfLineIdx + 1)
           THEN /\ newLogs' = emit(newLogs, logs, from, endOfLineIdx)
                /\ i' = endOfLineIdx + 1
                /\ pc' = "loop"
           ELSE /\ pc' = "panic"
                /\ UNCHANGED <<newLogs, i>>
    /\ UNCHANGED <<variant, op, logs, testName, priorLineMatchedPrefix,
                   filteredLogs, err, pass, firstResult>>

\* the loop exit and `return newLogs` of removeTestNamePrefix
removeTestNamePrefixReturn ==
    /\ op = "removeTestNamePrefix"
    /\ pc = "loop"
    /\ i >= Len(logs)
    /\ pc' = "done"
    /\ UNCHANGED <<variant, op, logs, testName, i, priorLineMatchedPrefix,
                   filteredLogs, newLogs, err, pass, firstResult>>

InitTestName ==
    /\ variant = 2
    /\ op = "removeTestNamePrefix"
    /\ logs \in Buffers(TestNameLines)
    /\ testName \in TestNames
    /\ i = 0
    /\ priorLineMatchedPrefix = FALSE
    /\ filteredLogs = <<>>
    /\ newLogs = <<>>
    /\ pc = "loop"
    /\ err = "unset"
    /\ pass = 1
    /\ firstResult = <<>>

NextTestName == removeTestNamePrefix \/ removeTestNamePrefixReturn

SpecTestName == InitTestName /\ [][NextTestName]_vars

(***************************************************************************)
(* parseSummary                                                             *)
(***************************************************************************)
\* "--- PASS:"
summaryPass == <<"-", "-", "-", " ", "P", "A", "S", "S", ":">>

\* "--- FAIL:"
summaryFail == <<"-", "-", "-", " ", "F", "A", "I", "L", ":">>

\* the bytes that count as leading whitespace of a line
Whitespace == {SP, "\t"}

\* result lines with and without indentation, a line that holds the marker
\* after other bytes, a marker without its colon, an orphan line and the
\* empty line
SummaryLines ==
    { summaryPass \o <<" ", "A">>,
      <<" ", " ">> \o summaryFail \o <<" ", "B">>,
      <<"\t">> \o summaryFail,
      <<"x">> \o summaryPass,
      <<"-", "-", "-", " ", "P", "A", "S", "S">>,
      <<"x">>, <<>> }

\* the offset of the first byte at or after offset that is no whitespace
\* (the length of str when there is none)
skipWhitespace(str, offset) ==
    LET stops == {k \in offset..(Len(str) - 1) : str[k + 1] \notin Whitespace}
    IN  IF stops # {} THEN Min(stops) ELSE Len(str)

\* the line at offset begins, after its leading whitespace, with "--- PASS:"
\* or "--- FAIL:"
isSummaryLine(str, offset) ==
    LET start == skipWhitespace(str, offset)
    IN  hasPrefix(str, start, summaryPass) \/ hasPrefix(str, start, summaryFail)

\* one iteration of parseSummary: the line is emitted if it is a result line
parseSummary ==
    /\ op = "parseSummary"
    /\ pc = "loop"
    /\ i < Len(logs)
    /\ LET endOfLineIdx == findNext(logs, i, NL)
       IN  /\ newLogs' = IF isSummaryLine(logs, i)
                         THEN emit(newLogs, logs, i, endOfLineIdx)
                         ELSE newLogs
           /\ i' = endOfLineIdx + 1
    /\ UNCHANGED <<variant, op, logs, testName, priorLineMatchedPrefix,
                   filteredLogs, pc, err, pass, firstResult>>

\* the end of the buffer: parseSummary returns the emitted lines
parseSummaryReturn ==
    /\ op = "parseSummary"
    /\ pc = "loop"
    /\ i >= Len(logs)
    /\ pc' = "done"
    /\ UNCHANGED <<variant, op, logs, testName, i, priorLineMatchedPrefix,
                   filteredLogs, newLogs, err, pass, firstResult>>

InitSummary ==
    /\ variant = 2
    /\ op = "parseSummary"
    /\ logs \in Buffers(SummaryLines)
    /\ testName = <<>>
    /\ i = 0
    /\ priorLineMatchedPrefix = FALSE
    /\ filteredLogs = <<>>
    /\ newLogs = <<>>
    /\ pc = "loop"
    /\ err = "unset"
    /\ pass = 1
    /\ firstResult = <<>>

NextSummary == parseSummary \/ parseSummaryReturn

SpecSummary == InitSummary /\ [][NextSummary]_vars

(***************************************************************************)
(* Vocabulary of the properties: lines of a buffer, independent of the      *)
(* scanning code                                                            *)
(***************************************************************************)
Max(S) == CHOOSE x \in S : \A y \in S : x >= y

\* b ends with the line terminator
EndsWithNL(b) == b # <<>> /\ b[Len(b)] = NL

\* l begins with the bytes p
StartsWith(l, p) == Len(l) >= Len(p) /\ SubSeq(l, 1, Len(p)) = p

\* the 0-based offsets at which the lines of buffer b begin
LineStarts(b) ==
    {k \in 0..(Len(b) - 1) : k = 0 \/ b[k] = NL}

\* the line of b that begins at offset k, with its terminator if it has one
LineAt(b, k) ==
    LET nls == {p \in (k + 1)..Len(b) : b[p] = NL}
    IN  SubSeq(b, k + 1, IF nls # {} THEN Min(nls) ELSE Len(b))

\* the lines of b in order, each with its terminator
SplitLines(b) ==
    LET starts == LineStarts(b)
        nth[n \in 1..Cardinality(starts)] ==
            CHOOSE k \in starts : Cardinality({m \in starts : m < k}) = n - 1
    IN  [n \in 1..Cardinality(starts) |-> LineAt(b, nth[n])]

RECURSIVE ConcatLines(_)
ConcatLines(ls) == IF ls = <<>> THEN <<>> ELSE Head(ls) \o ConcatLines(Tail(ls))

\* the line without its terminator
Content(l) == IF EndsWithNL(l) THEN SubSeq(l, 1, Len(l) - 1) ELSE l

\* the bytes of l before its first space (all of its content if it has none)
TokenOf(l) ==
    LET c == Content(l)
        sps == {p \in 1..Len(c) : c[p] = SP}
    IN  IF sps = {} THEN c ELSE SubSeq(c, 1, Min(sps) - 1)

\* l is a token beginning with "Test", one space and a rest
IsTokenLine(l) ==
    /\ StartsWith(l, Test)
    /\ Len(TokenOf(l)) < Len(Content(l))

\* l is a direct match for test name t in variant v of filterLogs
DirectMatch(v, l, t) ==
    \/ StartsWith(l, t)
    \/ v = 2 /\ StartsWith(l, testFailurePrefix \o t)

\* ls is a subsequence of the sequence of lines bs
RECURSIVE IsSubseq(_, _)
IsSubseq(ls, bs) ==
    IF ls = <<>> THEN TRUE
    ELSE IF bs = <<>> THEN FALSE
    ELSE IF Head(ls) = Head(bs) THEN IsSubseq(Tail(ls), Tail(bs))
    ELSE IsSubseq(ls, Tail(bs))

Returned == op = "filterLogs" /\ pc = "done"

(***************************************************************************)
(* C1                                                                       *)
(***************************************************************************)
AllTokenLines(b) == \A k \in LineStarts(b) : IsTokenLine(LineAt(b, k))

\* C1 as stated: on a buffer of token lines, filterLogs returns exactly the
\* lines whose token equals the test name, in their original order.
C1_ExactToken ==
    (Returned /\ AllTokenLines(logs)) =>
        filteredLogs =
            ConcatLines(SelectSeq(SplitLines(logs), LAMBDA l : TokenOf(l) = testName))

\* C1 amended: on a buffer of token lines, filterLogs returns exactly the
\* lines that begin with the bytes of the test name (a prefix comparison, so
\* the lines of a longer name that starts with the test name are returned
\* too), in their original order.
C1_PrefixLines ==
    (Returned /\ AllTokenLines(logs)) =>
        filteredLogs =
            ConcatLines(SelectSeq(SplitLines(logs), LAMBDA l : StartsWith(l, testName)))

\* a call returned on token lines, one of a longer name that was kept and one
\* of another test that was dropped
C1_Witness ==
    /\ Returned /\ pass = 1 /\ AllTokenLines(logs)
    /\ testName = TestA
    /\ \E k \in LineStarts(logs) : TokenOf(LineAt(logs, k)) = TestAB
    /\ \E k \in LineStarts(logs) : TokenOf(LineAt(logs, k)) = TestB
    /\ filteredLogs # <<>>
    /\ Len(filteredLogs) < Len(logs)

(***************************************************************************)
(* C2                                                                       *)
(***************************************************************************)
\* the line the loop of filterLogs is about to read
CurLine == LineAt(logs, i)

\* a loop iteration of filterLogs that ran to its end
FilterIteration == filterLogs /\ pc' = "loop"

\* the nearest line before offset k that is a direct match or begins with
\* "Test" exists and is a direct match
NearestMarkerMatches(v, b, k, t) ==
    LET markers == {s \in LineStarts(b) :
                      /\ s < k
                      /\ \/ DirectMatch(v, LineAt(b, s), t)
                         \/ StartsWith(LineAt(b, s), Test)}
    IN  markers # {} /\ DirectMatch(v, LineAt(b, Max(markers)), t)

\* C2, part 1: a line that is no direct match and does not begin with "Test"
\* is emitted if and only if the state is MATCHED when it is read, and it
\* leaves the state as it is.
C2_OrphanStep ==
    (FilterIteration /\ ~DirectMatch(variant, CurLine, testName)
                     /\ ~StartsWith(CurLine, Test))
        => /\ priorLineMatchedPrefix => filteredLogs' = filteredLogs \o CurLine
           /\ ~priorLineMatchedPrefix => filteredLogs' = filteredLogs
           /\ priorLineMatchedPrefix' = priorLineMatchedPrefix

\* C2, part 2: a line that begins with "Test" and is no direct match is
\* dropped and leaves the state UNMATCHED.
C2_BoundaryStep ==
    (FilterIteration /\ ~DirectMatch(variant, CurLine, testName)
                     /\ StartsWith(CurLine, Test))
        => /\ filteredLogs' = filteredLogs
           /\ priorLineMatchedPrefix' = FALSE

\* C2, part 3: the state is MATCHED exactly when the nearest preceding line
\* that is a direct match or begins with "Test" exists and is a direct match.
C2_StateMeaning ==
    (op = "filterLogs") =>
        (priorLineMatchedPrefix <=> NearestMarkerMatches(variant, logs, i, testName))

\* C2: in filterLogs an orphan line is emitted iff the state is MATCHED, i.e.
\* iff the nearest preceding direct-match-or-"Test" line is a direct match;
\* a "Test" line that is no direct match is dropped and resets the state, so
\* orphan lines after another test's line are dropped even after a match.
C2_Continuation ==
    /\ [][C2_OrphanStep /\ C2_BoundaryStep]_vars
    /\ []C2_StateMeaning

\* TestA's line, another test's line and an orphan line were read: the orphan
\* line was dropped although the test name matched earlier in the buffer
C2_Witness ==
    /\ Returned /\ pass = 1 /\ variant = 2 /\ testName = TestA
    /\ logs = TestA \o <<" ", "1", NL>> \o TestB \o <<" ", "1", NL, "x", NL>>
    /\ filteredLogs = TestA \o <<" ", "1", NL>>
    /\ ~priorLineMatchedPrefix

(***************************************************************************)
(* C3                                                                       *)
(***************************************************************************)
\* C3: in the filterLogs with failure-report headers (variant 2), a line that
\* starts with "=== NAME  " followed by the test name is emitted in any state
\* and moves the filter to MATCHED.
C3_FailureHeader ==
    [][(FilterIteration /\ variant = 2
            /\ StartsWith(CurLine, testFailurePrefix \o testName))
        => /\ filteredLogs' = filteredLogs \o CurLine
           /\ priorLineMatchedPrefix' = TRUE]_vars

\* another test's line, then the header of the test name and an orphan line:
\* the header was read in state UNMATCHED and it and the orphan line are kept
C3_Witness ==
    /\ Returned /\ pass = 1 /\ variant = 2 /\ testName = TestA
    /\ logs = TestB \o <<" ", "1", NL>> \o testFailurePrefix \o TestA
                \o <<NL, "x", NL>>
    /\ filteredLogs = testFailurePrefix \o TestA \o <<NL, "x", NL>>
    /\ priorLineMatchedPrefix

(***************************************************************************)
(* C4                                                                       *)
(***************************************************************************)
\* C4: in every variant filterLogs completes without an out-of-range index
\* and returns a nil error.
C4_Total ==
    (op = "filterLogs") => /\ pc # "panic"
                           /\ pc = "done" => err = "nil"

(***************************************************************************)
(* C5                                                                       *)
(***************************************************************************)
\* C5 as stated: a non-empty result ends with the terminator if and only if
\* the input buffer ends with it.
C5_TerminatorPreserved ==
    (Returned /\ filteredLogs # <<>>) =>
        (EndsWithNL(filteredLogs) <=> EndsWithNL(logs))

\* the iteration of filterLogs that reads the last line of the buffer
LastIteration == FilterIteration /\ i' >= Len(logs)

\* C5 amended: a non-empty result ends with the terminator if and only if the
\* input buffer ends with it or the last line of the buffer is not one of the
\* emitted lines.
C5_TerminatorOfLastEmitted ==
    [][(LastIteration /\ filteredLogs' # <<>>)
        => (EndsWithNL(filteredLogs')
                <=> (EndsWithNL(logs) \/ filteredLogs' = filteredLogs))]_vars

\* a buffer without final terminator whose last line was dropped: the result
\* ends with the terminator of the last emitted line
C5_Witness ==
    /\ Returned /\ pass = 1 /\ testName = TestA
    /\ ~EndsWithNL(logs)
    /\ logs = TestA \o <<" ", "1", NL>> \o TestB \o <<" ", "1">>
    /\ filteredLogs = TestA \o <<" ", "1", NL>>
    /\ EndsWithNL(filteredLogs)

(***************************************************************************)
(* C6                                                                       *)
(***************************************************************************)
\* a loop iteration of removeTestNamePrefix that ran to its end
PrefixIteration == removeTestNamePrefix /\ pc' = "loop"

\* C6: removeTestNamePrefix changes a line if and only if it begins with the
\* test name immediately followed by one space, and then removes exactly
\* those len(T)+1 bytes; every other line is copied unchanged with its
\* terminator, and the number of lines is preserved.
C6_ExactPrefixOnly ==
    /\ [][PrefixIteration =>
            newLogs' = newLogs \o
                (IF StartsWith(CurLine, testName \o <<SP>>)
                 THEN SubSeq(CurLine, Len(testName) + 2, Len(CurLine))
                 ELSE CurLine)]_vars
    /\ []((op = "removeTestNamePrefix" /\ pc = "done")
            => Len(SplitLines(newLogs)) = Len(SplitLines(logs)))

(***************************************************************************)
(* C7                                                                       *)
(***************************************************************************)
HasSpace(l) == \E p \in 1..Len(Content(l)) : l[p] = SP

AllLinesHaveSpace(b) == \A k \in LineStarts(b) : HasSpace(LineAt(b, k))

\* the bytes of l strictly after its first space, through its terminator
AfterFirstSpace(l) ==
    SubSeq(l, Min({p \in 1..Len(l) : l[p] = SP}) + 1, Len(l))

\* for each line of b in order, the bytes after its first space
AllAfterFirstSpace(b) ==
    LET ls == SplitLines(b)
    IN  ConcatLines([n \in 1..Len(ls) |-> AfterFirstSpace(ls[n])])

TimestampReturned == op = "removeTimestampPrefix" /\ pc = "done"

\* the last line of b has no terminator and nothing after its first space
LastLineEndsAtFirstSpace(b) ==
    /\ b # <<>>
    /\ ~EndsWithNL(b)
    /\ AfterFirstSpace(LineAt(b, Max(LineStarts(b)))) = <<>>

\* C7 as stated: when every line holds a space, removeTimestampPrefix outputs
\* for each line the bytes after its first space through its terminator, so
\* the output has as many lines as the input and is never longer.
C7_LineCountPreserved ==
    (TimestampReturned /\ AllLinesHaveSpace(logs)) =>
        /\ newLogs = AllAfterFirstSpace(logs)
        /\ Len(SplitLines(newLogs)) = Len(SplitLines(logs))
        /\ Len(newLogs) <= Len(logs)

\* C7 amended: when every line holds a space, removeTimestampPrefix outputs
\* for each line the bytes after its first space through its terminator; the
\* output is never longer and has as many lines as the input, except that an
\* unterminated last line with nothing after its first space leaves no bytes
\* and so one line fewer.
C7_AfterFirstSpace ==
    (TimestampReturned /\ AllLinesHaveSpace(logs)) =>
        /\ newLogs = AllAfterFirstSpace(logs)
        /\ Len(SplitLines(newLogs)) =
              Len(SplitLines(logs))
                  - (IF LastLineEndsAtFirstSpace(logs) THEN 1 ELSE 0)
        /\ Len(newLogs) <= Len(logs)

\* a returned call on three lines, one with a second space and one with an
\* empty message
C7_Witness ==
    /\ TimestampReturned /\ AllLinesHaveSpace(logs)
    /\ Len(SplitLines(logs)) = 3
    /\ SplitLines(logs)[1] = <<"t", " ", "m", " ", "m", NL>>
    /\ SplitLines(logs)[2] = <<"t", " ", NL>>
    /\ newLogs = <<"m", " ", "m", NL, NL>> \o AfterFirstSpace(SplitLines(logs)[3])
    /\ Len(SplitLines(newLogs)) = 3

(***************************************************************************)
(* C8                                                                       *)
(***************************************************************************)
HasDirectMatch(v, b, t) == \E k \in LineStarts(b) : DirectMatch(v, LineAt(b, k), t)

\* C8: the first emitted line is always a direct match, and filterLogs
\* returns, with a nil error, a result that is non-empty exactly when the
\* buffer holds a direct match (so the empty buffer when it holds none).
C8_EmptyWithoutMatch ==
    (op = "filterLogs") =>
        /\ filteredLogs # <<>> =>
               /\ DirectMatch(variant, LineAt(filteredLogs, 0), testName)
               /\ \E k \in LineStarts(logs) :
                      /\ LineAt(logs, k) = LineAt(filteredLogs, 0)
                      /\ \A s \in LineStarts(logs) :
                             s < k => ~DirectMatch(variant, LineAt(logs, s), testName)
        /\ pc = "done" =>
               /\ err = "nil"
               /\ filteredLogs # <<>> <=> HasDirectMatch(variant, logs, testName)

\* a non-empty buffer without a direct match returned the empty buffer
C8_Witness ==
    /\ Returned /\ pass = 1
    /\ Len(SplitLines(logs)) >= 2
    /\ \E k \in LineStarts(logs) : StartsWith(LineAt(logs, k), Test)
    /\ \E k \in LineStarts(logs) : ~StartsWith(LineAt(logs, k), Test)
    /\ ~HasDirectMatch(variant, logs, testName)
    /\ filteredLogs = <<>>

(***************************************************************************)
(* C9                                                                       *)
(***************************************************************************)
\* C9: the lines of the result of filterLogs are a subsequence of the lines
\* of the buffer: each one is a line of the buffer with its terminator, in
\* the order of the buffer, none taken twice.
C9_Subsequence ==
    (op = "filterLogs") =>
        /\ IsSubseq(SplitLines(filteredLogs), SplitLines(logs))
        /\ ConcatLines(SplitLines(filteredLogs)) = filteredLogs

\* a result that kept some lines, in several blocks, and dropped others
C9_Witness ==
    /\ Returned /\ pass = 1
    /\ Len(SplitLines(logs)) = 3
    /\ Len(SplitLines(filteredLogs)) = 2
    /\ SplitLines(filteredLogs)[1] = SplitLines(logs)[1]
    /\ SplitLines(filteredLogs)[2] = SplitLines(logs)[3]
    /\ SplitLines(logs)[2] # SplitLines(logs)[1]
    /\ SplitLines(logs)[2] # SplitLines(logs)[3]

(***************************************************************************)
(* C10                                                                      *)
(***************************************************************************)
\* C10: filterLogs is idempotent: filtering its result again with the same
\* test name returns the same result.
C10_Idempotent ==
    (Returned /\ pass = 2) => filteredLogs = firstResult

\* the second call returned after the first one had dropped lines and kept
\* a direct match and an orphan line
C10_Witness ==
    /\ Returned /\ pass = 2
    /\ firstResult # <<>>
    /\ Len(SplitLines(firstResult)) >= 2
    /\ \E k \in LineStarts(firstResult) :
           ~DirectMatch(variant, LineAt(firstResult, k), testName)
    /\ filteredLogs = firstResult

(***************************************************************************)
(* C11                                                                      *)
(***************************************************************************)
\* C11: for every buffer and test name removeTestNamePrefix returns normally,
\* without an out-of-range slice or index, and its output is never longer
\* than its input.
C11_ReturnsNotLonger ==
    (op = "removeTestNamePrefix") =>
        /\ pc # "panic"
        /\ Len(newLogs) <= Len(logs)

(***************************************************************************)
(* C12                                                                      *)
(***************************************************************************)
\* l begins, after zero or more whitespace bytes, with one of the result
\* markers
IsResultLine(l) ==
    \E n \in 0..Len(l) :
        /\ \A p \in 1..n : l[p] \in Whitespace
        /\ \/ StartsWith(SubSeq(l, n + 1, Len(l)), summaryPass)
           \/ StartsWith(SubSeq(l, n + 1, Len(l)), summaryFail)

SummaryIteration == parseSummary /\ pc' = "loop"

\* C12, per line: the line read is appended verbatim if it is a result line
\* and dropped otherwise, whatever the lines before it were.
C12_LineStep ==
    SummaryIteration =>
        newLogs' = IF IsResultLine(CurLine) THEN newLogs \o CurLine ELSE newLogs

\* C12, result: parseSummary returns the result lines of the buffer, in
\* order, with indentation and terminators, and a last line without
\* terminator stays without.
C12_Result ==
    (op = "parseSummary") =>
        /\ pc # "panic"
        /\ pc = "done" =>
              /\ newLogs = ConcatLines(SelectSeq(SplitLines(logs), IsResultLine))
              /\ (logs # <<>> /\ ~EndsWithNL(logs)
                    /\ IsResultLine(LineAt(logs, Max(LineStarts(logs)))))
                       => ~EndsWithNL(newLogs)

\* C12: parseSummary is a stateless per-line filter: a line is emitted
\* verbatim if and only if, after leading whitespace, it begins with
\* "--- PASS:" or "--- FAIL:"; the decision never depends on another line and
\* an unterminated last line stays unterminated.
C12_StatelessFilter ==
    /\ [][C12_LineStep]_vars
    /\ []C12_Result

\* a result line, an orphan line and an indented unterminated result line:
\* the orphan line was dropped, the other two kept as they were
C12_Witness ==
    /\ op = "parseSummary" /\ pc = "done"
    /\ logs = summaryPass \o <<" ", "A", NL, "x", NL, " ", " ">>
                \o summaryFail \o <<" ", "B">>
    /\ newLogs = summaryPass \o <<" ", "A", NL, " ", " ">>
                \o summaryFail \o <<" ", "B">>

(***************************************************************************)
(* C13                                                                      *)
(***************************************************************************)
\* l is the failure-report header of a test other than t, of whose name t is
\* no prefix
ForeignHeader(l, t) ==
    StartsWith(l, testFailurePrefix) /\ ~StartsWith(l, testFailurePrefix \o t)

\* the line of b at offset k belongs to another test's failure report: it is
\* a foreign header, or a line that neither begins with "Test" nor is a
\* direct match and follows a foreign header with no direct match in between
InForeignReport(v, b, k, t) ==
    \/ ForeignHeader(LineAt(b, k), t)
    \/ /\ ~StartsWith(LineAt(b, k), Test)
       /\ ~DirectMatch(v, LineAt(b, k), t)
       /\ \E h \in LineStarts(b) :
              /\ h < k
              /\ ForeignHeader(LineAt(b, h), t)
              /\ \A s \in LineStarts(b) :
                     (h < s /\ s < k) => ~DirectMatch(v, LineAt(b, s), t)

\* C13: filterLogs never emits the failure-report header of another test nor
\* the non-"Test" lines that follow it up to the next direct match, also when
\* the filter was in state MATCHED when the header was read.
C13_ForeignReportDropped ==
    [][(FilterIteration /\ variant = 2
            /\ InForeignReport(variant, logs, i, testName))
        => filteredLogs' = filteredLogs]_vars

====
